---- MODULE Spec2Model ----
(***************************************************************************)
(* Model of the streaming chat view (ChatPage) and of the community list   *)
(* (CommunitiesPage) of src/src/app/community/view-all/page.tsx, and of    *)
(* the navigation bar of src/src/components/Nav-bar.tsx.  The three        *)
(* components share no state; each has its own specification (Spec and     *)
(* FairSpec for the chat, SpecCommunities, SpecNavBar), under which the    *)
(* variables of the other two stay as they are initially.                  *)
(*                                                                         *)
(* Strings are sequences of tokens, so that concatenation (+), trim() and  *)
(* includes() are computed and not assumed.  The marker "[Error:" is the   *)
(* two-token sequence <<"[Err", "or:">>, so a marker may also arise across *)
(* the boundary of two chunks.  Every handler runs to completion (the      *)
(* JavaScript event loop), so each handler is one action; React state      *)
(* updates queued by a handler are applied in the order they were queued.  *)
(* Time is counted in milliseconds and advances in steps of at most TickMs.*)
(***************************************************************************)
EXTENDS Integers, Sequences, FiniteSets, TLC

\* ------------------------------------------------------------------ bounds
MaxSends == 2      \* non-blank sends per behaviour
MaxChunks == 2     \* message events delivered per behaviour
TickMs == 15000    \* largest step of the clock, in ms

\* ------------------------------------------------------- program constants
CHUNK_TIMEOUT == 30000
MAX_RETRIES == 3

NoConn == 0        \* eventSourceRef.current = null
NoTimer == 0       \* chunkTimeoutRef.current = null
WelcomeId == 0     \* id "welcome-message"

Min(a, b) == IF a <= b THEN a ELSE b

\* --------------------------------------------------------------- strings
ErrMarker == <<"[Err", "or:">>

\* String.prototype.includes
Includes(s, pat) ==
  \E i \in 0..(Len(s) - Len(pat)) : SubSeq(s, i + 1, i + Len(pat)) = pat

IsSpace(ch) == ch = " "

RECURSIVE TrimStart(_)
TrimStart(s) ==
  IF s # <<>> /\ IsSpace(Head(s)) THEN TrimStart(Tail(s)) ELSE s

RECURSIVE TrimEnd(_)
TrimEnd(s) ==
  IF s # <<>> /\ IsSpace(s[Len(s)]) THEN TrimEnd(SubSeq(s, 1, Len(s) - 1)) ELSE s

\* mutant: the text is tested without trimming it
Trim_none(s) == s

\* String.prototype.trim
Trim(s) == TrimEnd(TrimStart(s))

\* a lone surrogate code unit, on which encodeURIComponent throws URIError
LoneSurrogate == "\\uD800"

EncodeThrows(text) == \E i \in 1..Len(text) : text[i] = LoneSurrogate

\* encodeURIComponent on the characters of the model: a space is escaped,
\* a letter is kept
EncodeChar(ch) == IF ch = " " THEN "%20" ELSE ch

EncodeURIComponent(text) == [i \in 1..Len(text) |-> EncodeChar(text[i])]

\* texts handed to handleSendMessage, and typed into the input
Texts ==
  { <<>>, <<" ">>, <<" ", "h">>, <<LoneSurrogate>> }

\* event.data of a message event (an EventSource dispatches no message
\* event with empty data)
Chunks ==
  { <<"a">>, <<"[Err">>, <<"or:">>, <<"[Err", "or:">> }

TimeoutText ==
  <<"\n">> \o ErrMarker \o
  <<" ", "Response timeout - No data received for 30 seconds", "]">>

ErrorText(errorMsg) == <<"\n">> \o ErrMarker \o <<" ">> \o errorMsg \o <<"]">>

RetriesMsg == <<"Connection failed after multiple retries">>
ConnectMsg == <<"Failed to establish connection">>

\* ------------------------------------------------------------------ state
VARIABLES
  messages,         \* useState<Message[]>
  input,            \* useState("")
  isLoading,        \* useState(false)
  eventSourceRef,   \* useRef<EventSource | null>: index into sources, or NoConn
  chunkTimeoutRef,  \* useRef<Timeout | null>: a timer id, or NoTimer
  retryCountRef,    \* useRef<number>
  thread_id,        \* useRef(uuidv4())
  sources,          \* every EventSource constructed so far, with the
                    \* variables of its handlers' closure
  timers,           \* the pending setTimeout timers
  timerSeq,         \* number of setTimeout calls so far (the last timer id)
  uuidSeq,          \* number of message uuids generated so far
  mounted,          \* the component is mounted
  idle,             \* ms since the open stream was opened or last got data
  lastEvent         \* the handler that ran last, its argument, and the
                    \* EventSource it ran for (a send: the one it found open)

chatVars ==
  <<messages, input, isLoading, eventSourceRef, chunkTimeoutRef, retryCountRef,
    thread_id, sources, timers, timerSeq, uuidSeq, mounted, idle, lastEvent>>

\* CommunitiesPage
VARIABLES
  allCommunities,        \* useState<Community[]>([])
  joinedCommunities,     \* useState<Community[]>([])
  notJoinedCommunities,  \* useState<Community[]>([])
  searchTerm,            \* useState<string>("")
  loading,               \* useState<boolean>(false)
  debounceTimers,        \* the pending timers of the debounce effect, each
                         \* with the term and the joined list of its render
  requests,              \* the backend requests in flight
  reqSeq,                \* number of requests issued so far
  termAge,               \* ms since searchTerm last changed, up to DebounceMs
  commLast               \* the handler of the page that ran last

commVars ==
  <<allCommunities, joinedCommunities, notJoinedCommunities, searchTerm, loading,
    debounceTimers, requests, reqSeq, termAge, commLast>>

\* NavigationBar and ProfileContent
VARIABLES
  userType,          \* the prop of NavigationBar
  pathname,          \* usePathname(), changed by router.push
  notificationOpen,  \* useState(false)
  profileOpen,       \* useState(false)
  user,              \* the user of useUser()
  signingOut,        \* the signOut() calls awaited by handleLogout
  navLast            \* the handler of the bar that ran last, and the calls
                     \* it made, in order

navVars ==
  <<userType, pathname, notificationOpen, profileOpen, user, signingOut, navLast>>

vars == <<chatVars, commVars, navVars>>

\* the part of the state the helper functions of the component work on
Cur ==
  [messages |-> messages, isLoading |-> isLoading,
   eventSourceRef |-> eventSourceRef, chunkTimeoutRef |-> chunkTimeoutRef,
   retryCountRef |-> retryCountRef, sources |-> sources, timers |-> timers, timerSeq |-> timerSeq]

Commit(s) ==
  /\ messages' = s.messages
  /\ isLoading' = s.isLoading
  /\ eventSourceRef' = s.eventSourceRef
  /\ chunkTimeoutRef' = s.chunkTimeoutRef
  /\ retryCountRef' = s.retryCountRef
  /\ sources' = s.sources
  /\ timers' = s.timers
  /\ timerSeq' = s.timerSeq

WelcomeMessage ==
  [id |-> WelcomeId, role |-> "assistant",
   content |-> <<"Hello! I'm your job search assistant. How can I help you today?">>,
   error |-> FALSE, isLoading |-> FALSE]

ChatInit ==
  /\ messages = <<WelcomeMessage>>
  /\ input = <<>>
  /\ isLoading = FALSE
  /\ eventSourceRef = NoConn
  /\ chunkTimeoutRef = NoTimer
  /\ retryCountRef = 0
  /\ thread_id = "uuid-thread"
  /\ sources = <<>>
  /\ timers = {}
  /\ timerSeq = 0
  /\ uuidSeq = 0
  /\ mounted = TRUE
  /\ idle = 0
  /\ lastEvent = [op |-> "init", arg |-> <<>>, src |-> NoConn]

\* ---------------------------------------------------------------- helpers
\* clearTimeout(id)
ClearTimeout(ts, id) == { t \in ts : t.id # id }

\* prev.map(msg => msg.id === id
\*   ? {...msg, content: msg.content + suffix, error: true, isLoading: false}
\*   : msg)
MarkFailed(msgs, id, suffix) ==
  [i \in 1..Len(msgs) |->
     IF msgs[i].id = id
       THEN [msgs[i] EXCEPT !.content = @ \o suffix, !.error = TRUE,
                            !.isLoading = FALSE]
       ELSE msgs[i]]

\* mutant: the id of the message is not compared
SetContent_all(msgs, id, fullMessage) ==
  [i \in 1..Len(msgs) |->
     [msgs[i] EXCEPT !.content = fullMessage, !.isLoading = FALSE]]

\* prev.map(msg => msg.id === id
\*   ? {...msg, content: fullMessage, isLoading: false} : msg)
SetContent(msgs, id, fullMessage) ==
  [i \in 1..Len(msgs) |->
     IF msgs[i].id = id
       THEN [msgs[i] EXCEPT !.content = fullMessage, !.isLoading = FALSE]
       ELSE msgs[i]]

\* mutant: setIsLoading(false) is forgotten
cleanupStream_keepsLoading(s) ==
  LET s1 == IF s.eventSourceRef # NoConn
              THEN [s EXCEPT !.sources[s.eventSourceRef].closed = TRUE,
                             !.eventSourceRef = NoConn]
              ELSE s
  IN  IF s1.chunkTimeoutRef # NoTimer
        THEN [s1 EXCEPT !.timers = ClearTimeout(s1.timers, s1.chunkTimeoutRef),
                        !.chunkTimeoutRef = NoTimer]
        ELSE s1

cleanupStream(s) ==
  LET s1 == IF s.eventSourceRef # NoConn
              THEN [s EXCEPT !.sources[s.eventSourceRef].closed = TRUE,
                             !.eventSourceRef = NoConn]
              ELSE s
      s2 == IF s1.chunkTimeoutRef # NoTimer
              THEN [s1 EXCEPT !.timers = ClearTimeout(s1.timers, s1.chunkTimeoutRef),
                              !.chunkTimeoutRef = NoTimer]
              ELSE s1
  IN  [s2 EXCEPT !.isLoading = FALSE]

\* mutant: the previous timer is not cleared
startChunkTimeout_noClear(s, assistantMessageId) ==
  LET id == s.timerSeq + 1
  IN  [s EXCEPT !.timers = s.timers \cup {[id |-> id, msg |-> assistantMessageId,
                                            left |-> CHUNK_TIMEOUT]},
                !.timerSeq = id,
                !.chunkTimeoutRef = id]

startChunkTimeout(s, assistantMessageId) ==
  LET ts == IF s.chunkTimeoutRef # NoTimer
              THEN ClearTimeout(s.timers, s.chunkTimeoutRef)
              ELSE s.timers
      id == s.timerSeq + 1
  IN  [s EXCEPT !.timers = ts \cup {[id |-> id, msg |-> assistantMessageId,
                                       left |-> CHUNK_TIMEOUT]},
                !.timerSeq = id,
                !.chunkTimeoutRef = id]

\* the callback passed to setTimeout by startChunkTimeout
chunkTimeoutCallback(s, assistantMessageId) ==
  cleanupStream(
    [s EXCEPT !.messages = MarkFailed(s.messages, assistantMessageId, TimeoutText)])

\* mutant: the stream is not torn down
handleStreamError_noCleanup(s, assistantMessageId, errorMsg) ==
  [s EXCEPT !.messages =
     MarkFailed(s.messages, assistantMessageId, ErrorText(errorMsg))]

handleStreamError(s, assistantMessageId, errorMsg) ==
  cleanupStream(
    [s EXCEPT !.messages =
       MarkFailed(s.messages, assistantMessageId, ErrorText(errorMsg))])

\* mutant: the chunk replaces the message instead of being appended to it
onmessage_noAccumulate(s, e, content) ==
  LET assistantMessageId == s.sources[e].assistantMessageId
  IN  IF content # <<>>
        THEN LET s1 == startChunkTimeout(s, assistantMessageId)
             IN  IF Includes(content, ErrMarker)
                   THEN handleStreamError(s1, assistantMessageId, content)
                   ELSE [s1 EXCEPT
                           !.sources[e].fullMessage = content,
                           !.messages = SetContent(s1.messages, assistantMessageId,
                                                   content)]
        ELSE s

\* eventSource.onmessage of the EventSource e, for event.data = content
onmessage(s, e, content) ==
  LET assistantMessageId == s.sources[e].assistantMessageId
  IN  IF content # <<>>
        THEN LET s1 == startChunkTimeout(s, assistantMessageId)
             IN  IF Includes(content, ErrMarker)
                   THEN handleStreamError(s1, assistantMessageId, content)
                   ELSE LET fullMessage == s1.sources[e].fullMessage \o content
                        IN  [s1 EXCEPT
                               !.sources[e].fullMessage = fullMessage,
                               !.messages = SetContent(s1.messages, assistantMessageId,
                                                       fullMessage)]
        ELSE s

\* mutant: the comparison with MAX_RETRIES is off by one
onerror_offByOne(s, e) ==
  LET s1 == [s EXCEPT !.retryCountRef = s.retryCountRef + 1]
  IN  IF s1.retryCountRef > MAX_RETRIES
        THEN handleStreamError(s1, s1.sources[e].assistantMessageId, RetriesMsg)
        ELSE s1

\* eventSource.onerror of the EventSource e
onerror(s, e) ==
  LET s1 == [s EXCEPT !.retryCountRef = s.retryCountRef + 1]
  IN  IF s1.retryCountRef >= MAX_RETRIES
        THEN handleStreamError(s1, s1.sources[e].assistantMessageId, RetriesMsg)
        ELSE s1

\* mutant: the "done" event is ignored
ondone_ignored(s, e) == s

\* the listener of the "done" event
ondone(s, e) == cleanupStream(s)

\* mutant: the effect returns no cleanup function
unmountEffect_nothing(s) == s

\* the cleanup function of the effect that runs on unmount
unmountEffect(s) == cleanupStream(s)

\* the url handed to new EventSource
StreamUrl(thread, text) ==
  [path |-> "/api/stream-prompt", thread_id |-> thread,
   prompt |-> EncodeURIComponent(text)]

\* mutant: the retry count is not reset
sendMessage_noReset(s, text, thread, uuid) ==
  LET s1 == [cleanupStream(s) EXCEPT !.isLoading = TRUE]
      userMessage == [id |-> uuid + 1, role |-> "user", content |-> text,
                      error |-> FALSE, isLoading |-> FALSE]
      assistantMessageId == uuid + 2
      assistantMessage == [id |-> assistantMessageId, role |-> "assistant",
                           content |-> <<>>, error |-> FALSE, isLoading |-> TRUE]
      s2 == [s1 EXCEPT !.messages = s1.messages \o <<userMessage, assistantMessage>>]
      eventSource == [url |-> StreamUrl(thread, text),
                      assistantMessageId |-> assistantMessageId,
                      fullMessage |-> <<>>, closed |-> FALSE, received |-> <<>>]
  IN  IF EncodeThrows(text)
        THEN handleStreamError(s2, assistantMessageId, ConnectMsg)
        ELSE [s2 EXCEPT !.sources = Append(s2.sources, eventSource),
                        !.eventSourceRef = Len(s2.sources) + 1]

\* mutant: the existing stream is not reset
sendMessage_noCleanup(s, text, thread, uuid) ==
  LET s1 == [s EXCEPT !.retryCountRef = 0, !.isLoading = TRUE]
      userMessage == [id |-> uuid + 1, role |-> "user", content |-> text,
                      error |-> FALSE, isLoading |-> FALSE]
      assistantMessageId == uuid + 2
      assistantMessage == [id |-> assistantMessageId, role |-> "assistant",
                           content |-> <<>>, error |-> FALSE, isLoading |-> TRUE]
      s2 == [s1 EXCEPT !.messages = s1.messages \o <<userMessage, assistantMessage>>]
      eventSource == [url |-> StreamUrl(thread, text),
                      assistantMessageId |-> assistantMessageId,
                      fullMessage |-> <<>>, closed |-> FALSE, received |-> <<>>]
  IN  IF EncodeThrows(text)
        THEN handleStreamError(s2, assistantMessageId, ConnectMsg)
        ELSE [s2 EXCEPT !.sources = Append(s2.sources, eventSource),
                        !.eventSourceRef = Len(s2.sources) + 1]

\* handleSendMessage(text) past the blank check; the two uuids are
\* uuid + 1 and uuid + 2
sendMessage(s, text, thread, uuid) ==
  LET s1 == [cleanupStream(s) EXCEPT !.retryCountRef = 0, !.isLoading = TRUE]
      userMessage == [id |-> uuid + 1, role |-> "user", content |-> text,
                      error |-> FALSE, isLoading |-> FALSE]
      assistantMessageId == uuid + 2
      assistantMessage == [id |-> assistantMessageId, role |-> "assistant",
                           content |-> <<>>, error |-> FALSE, isLoading |-> TRUE]
      s2 == [s1 EXCEPT !.messages = s1.messages \o <<userMessage, assistantMessage>>]
      eventSource == [url |-> StreamUrl(thread, text),
                      assistantMessageId |-> assistantMessageId,
                      fullMessage |-> <<>>, closed |-> FALSE, received |-> <<>>]
  IN  IF EncodeThrows(text)
        THEN handleStreamError(s2, assistantMessageId, ConnectMsg)
        ELSE [s2 EXCEPT !.sources = Append(s2.sources, eventSource),
                        !.eventSourceRef = Len(s2.sources) + 1]

\* ---------------------------------------------------------------- actions
IsOpen(e) == e \in DOMAIN sources /\ ~sources[e].closed

\* the clock of idle stops one step past CHUNK_TIMEOUT
IdleCap == CHUNK_TIMEOUT + TickMs

\* onChange of the input, which is disabled while isLoading
SetInput(v) ==
  /\ UNCHANGED <<commVars, navVars>>
  /\ mounted /\ ~isLoading
  /\ input' = v
  /\ lastEvent' = [op |-> "input", arg |-> v, src |-> NoConn]
  /\ UNCHANGED <<messages, isLoading, eventSourceRef, chunkTimeoutRef, retryCountRef,
                 thread_id, sources, timers, timerSeq, uuidSeq, mounted, idle>>

\* handleSendMessage(text = input).  The form submits only while isLoading
\* is false, but the function takes its text as a parameter and resets "any
\* existing stream" itself, so it is callable in every mounted state.
HandleSendMessage(text) ==
  /\ UNCHANGED <<commVars, navVars>>
  /\ mounted
  /\ lastEvent' = [op |-> "send", arg |-> text, src |-> eventSourceRef]
  /\ IF Trim(text) = <<>>
       THEN UNCHANGED <<messages, input, isLoading, eventSourceRef, chunkTimeoutRef,
                        retryCountRef, thread_id, sources, timers, timerSeq, uuidSeq,
                        mounted, idle>>
       ELSE /\ uuidSeq < 2 * MaxSends
            /\ Commit(sendMessage(Cur, text, thread_id, uuidSeq))
            /\ uuidSeq' = uuidSeq + 2
            /\ input' = <<>>
            /\ idle' = 0
            /\ UNCHANGED <<thread_id, mounted>>

OnMessage(e, content) ==
  /\ UNCHANGED <<commVars, navVars>>
  /\ IsOpen(e)
  /\ timerSeq < MaxChunks
  /\ LET s == onmessage(Cur, e, content)
     IN  Commit([s EXCEPT !.sources[e].received = Append(@, content)])
  /\ idle' = 0
  /\ lastEvent' = [op |-> "message", arg |-> content, src |-> e]
  /\ UNCHANGED <<input, thread_id, uuidSeq, mounted>>

OnError(e) ==
  /\ UNCHANGED <<commVars, navVars>>
  /\ IsOpen(e)
  /\ Commit(onerror(Cur, e))
  /\ idle' = IF eventSourceRef' = NoConn THEN 0 ELSE idle
  /\ lastEvent' = [op |-> "error", arg |-> <<>>, src |-> e]
  /\ UNCHANGED <<input, thread_id, uuidSeq, mounted>>

OnDone(e) ==
  /\ UNCHANGED <<commVars, navVars>>
  /\ IsOpen(e)
  /\ Commit(ondone(Cur, e))
  /\ idle' = 0
  /\ lastEvent' = [op |-> "done", arg |-> <<>>, src |-> e]
  /\ UNCHANGED <<input, thread_id, uuidSeq, mounted>>

\* a pending timer whose time has come runs its callback
ChunkTimeoutFires(t) ==
  /\ UNCHANGED <<commVars, navVars>>
  /\ t \in timers /\ t.left = 0
  /\ Commit(chunkTimeoutCallback([Cur EXCEPT !.timers = timers \ {t}], t.msg))
  /\ idle' = 0
  /\ lastEvent' = [op |-> "timeout", arg |-> <<>>, src |-> eventSourceRef]
  /\ UNCHANGED <<input, thread_id, uuidSeq, mounted>>

\* the component unmounts
Unmount ==
  /\ UNCHANGED <<commVars, navVars>>
  /\ mounted
  /\ mounted' = FALSE
  /\ Commit(unmountEffect(Cur))
  /\ idle' = 0
  /\ lastEvent' = [op |-> "unmount", arg |-> <<>>, src |-> eventSourceRef]
  /\ UNCHANGED <<input, thread_id, uuidSeq>>

\* time passes, up to the next moment a pending timer is due
Tick ==
  /\ UNCHANGED <<commVars, navVars>>
  /\ \A t \in timers : t.left > 0
  /\ LET d == IF timers = {} THEN TickMs
              ELSE Min(TickMs, CHOOSE m \in {t.left : t \in timers} :
                                 \A t \in timers : m <= t.left)
     IN  /\ timers' = { [t EXCEPT !.left = @ - d] : t \in timers }
         /\ idle' = IF eventSourceRef # NoConn THEN Min(idle + d, IdleCap) ELSE idle
  /\ lastEvent' = [op |-> "tick", arg |-> <<>>, src |-> NoConn]
  /\ UNCHANGED <<messages, input, isLoading, eventSourceRef, chunkTimeoutRef,
                 retryCountRef, thread_id, sources, timerSeq, uuidSeq, mounted>>

\* ======================================================== CommunitiesPage
\* The page while it is mounted.  A handler runs to its end before the next
\* one starts; the render and the effects a handler's state updates cause
\* are part of its step.  The backend is a black box: a request in flight
\* is answered at any later moment, with success or with failure.

\* the delay of the debounce effect, in ms
DebounceMs == 500

\* the longest step of the clock of the page, in ms
CommTickMs == 250

\* requests issued in one behaviour, the two of the mount effects included
MaxRequests == 4

CommA == [communityId |-> "c1", communityName |-> <<"A">>]
CommB == [communityId |-> "c2", communityName |-> <<"b">>]
NoCommunity == [communityId |-> "none", communityName |-> <<>>]

\* what the user types into the search box
SearchTerms == {<<>>, <<" ">>, <<"a">>, <<"b">>}

\* data.communities of /api/community/all
AllResponses == {<<CommA, CommB>>}

\* the list of /api/community/joined/<uid>
JoinedResponses == {<<>>, <<CommA>>}

\* data.results of /api/community/search
SearchResponses == {<<>>, <<CommA>>, <<CommA, CommB>>}

\* String.prototype.toLowerCase
ToLowerCase(s) ==
  [i \in 1..Len(s) |-> IF s[i] = "A" THEN "a" ELSE IF s[i] = "B" THEN "b" ELSE s[i]]

\* new Set(list.map((c) => c.communityId))
Ids(list) == { list[i].communityId : i \in 1..Len(list) }

\* list.filter((c) => !ids.has(c.communityId))
WithoutIds(list, ids) == SelectSeq(list, LAMBDA c : c.communityId \notin ids)

\* the state the handlers of the page work on
CommCur ==
  [allCommunities |-> allCommunities, joinedCommunities |-> joinedCommunities,
   notJoinedCommunities |-> notJoinedCommunities, searchTerm |-> searchTerm,
   loading |-> loading, debounceTimers |-> debounceTimers]

CommCommit(s) ==
  /\ allCommunities' = s.allCommunities
  /\ joinedCommunities' = s.joinedCommunities
  /\ notJoinedCommunities' = s.notJoinedCommunities
  /\ searchTerm' = s.searchTerm
  /\ loading' = s.loading
  /\ debounceTimers' = s.debounceTimers

\* useEffect(..., [searchTerm, allCommunities, joinedCommunities])
emptySearchEffect(s) ==
  IF Trim(s.searchTerm) = <<>>
    THEN [s EXCEPT !.notJoinedCommunities =
                      WithoutIds(s.allCommunities, Ids(s.joinedCommunities))]
    ELSE s

\* mutant: the cleanup of the previous run is forgotten
debounceEffect_noCleanup(s) ==
  IF Trim(s.searchTerm) # <<>>
    THEN [s EXCEPT !.debounceTimers =
                      @ \cup {[term |-> s.searchTerm, joined |-> s.joinedCommunities,
                               left |-> DebounceMs]}]
    ELSE s

\* useEffect(..., [searchTerm, joinedCommunities]): the cleanup of the
\* previous run clears its timer, then a non-blank term arms a new one; the
\* callback closes over the searchTerm and the joinedCommunities of its render
debounceEffect(s) ==
  LET cleared == [s EXCEPT !.debounceTimers = {}]
  IN  IF Trim(s.searchTerm) # <<>>
        THEN [cleared EXCEPT !.debounceTimers =
                               {[term |-> s.searchTerm, joined |-> s.joinedCommunities,
                                 left |-> DebounceMs]}]
        ELSE cleared

\* the render after a state update runs the effects whose dependencies changed
renderEffects(s, emptySearchDeps, debounceDeps) ==
  LET s1 == IF emptySearchDeps THEN emptySearchEffect(s) ELSE s
  IN  IF debounceDeps THEN debounceEffect(s1) ELSE s1

\* onChange of the search box: setSearchTerm(e.target.value)
onChangeSearch(s, value) ==
  renderEffects([s EXCEPT !.searchTerm = value], TRUE, TRUE)

\* fetchAllCommunities, after the response
fetchAllResolved(s, communities) ==
  renderEffects([s EXCEPT !.allCommunities = communities, !.loading = FALSE],
                TRUE, FALSE)

fetchAllRejected(s) == [s EXCEPT !.loading = FALSE]

\* fetchJoinedCommunities, after the response
fetchJoinedResolved(s, joined) ==
  renderEffects([s EXCEPT !.joinedCommunities = joined], TRUE, TRUE)

\* searchNotJoinedCommunities, after the response; joinedAtCall is the
\* joinedCommunities of the render whose timer called the function
searchResolved(s, joinedAtCall, searchResults) ==
  [s EXCEPT !.notJoinedCommunities = WithoutIds(searchResults, Ids(joinedAtCall)),
            !.loading = FALSE]

searchRejected(s) ==
  [s EXCEPT !.notJoinedCommunities = <<>>, !.loading = FALSE]

\* joinCommunity, after the response
joinResolved(s, community) ==
  renderEffects(
    [s EXCEPT !.joinedCommunities = Append(@, community),
              !.notJoinedCommunities = WithoutIds(@, {community.communityId})],
    TRUE, TRUE)

\* leaveCommunity, after the response; termAtCall is the searchTerm of the
\* render whose Leave button was clicked
leaveResolved(s, community, termAtCall) ==
  renderEffects(
    [s EXCEPT !.joinedCommunities = WithoutIds(@, {community.communityId}),
              !.notJoinedCommunities =
                 IF \/ Trim(termAtCall) = <<>>
                    \/ Includes(ToLowerCase(community.communityName),
                                ToLowerCase(termAtCall))
                   THEN Append(@, community)
                   ELSE @],
    TRUE, TRUE)

\* the joined communities the page shows, each with its Leave button
displayedJoinedCommunities ==
  IF Trim(searchTerm) = <<>>
    THEN joinedCommunities
    ELSE SelectSeq(joinedCommunities,
                   LAMBDA c : Includes(ToLowerCase(c.communityName),
                                       ToLowerCase(searchTerm)))

Request(kind, term, joined, community) ==
  [id |-> reqSeq + 1, kind |-> kind, term |-> term, joined |-> joined,
   community |-> community]

\* the state after the mount: the effects have run once, the two fetches of
\* the mount are in flight
CommInit ==
  /\ allCommunities = <<>>
  /\ joinedCommunities = <<>>
  /\ notJoinedCommunities = <<>>
  /\ searchTerm = <<>>
  /\ loading = TRUE
  /\ debounceTimers = {}
  /\ requests = {[id |-> 1, kind |-> "all", term |-> <<>>, joined |-> <<>>,
                  community |-> NoCommunity],
                 [id |-> 2, kind |-> "joined", term |-> <<>>, joined |-> <<>>,
                  community |-> NoCommunity]}
  /\ reqSeq = 2
  /\ termAge = DebounceMs
  /\ commLast = "mount"

\* ------------------------------------------------- actions of the page
TypeSearch(value) ==
  /\ UNCHANGED <<chatVars, navVars>>
  /\ value # searchTerm
  /\ CommCommit(onChangeSearch(CommCur, value))
  /\ termAge' = 0
  /\ commLast' = "type"
  /\ UNCHANGED <<requests, reqSeq>>

FetchAllOk(r, communities) ==
  /\ UNCHANGED <<chatVars, navVars>>
  /\ r \in requests /\ r.kind = "all"
  /\ CommCommit(fetchAllResolved(CommCur, communities))
  /\ requests' = requests \ {r}
  /\ commLast' = "allOk"
  /\ UNCHANGED <<reqSeq, termAge>>

FetchAllFail(r) ==
  /\ UNCHANGED <<chatVars, navVars>>
  /\ r \in requests /\ r.kind = "all"
  /\ CommCommit(fetchAllRejected(CommCur))
  /\ requests' = requests \ {r}
  /\ commLast' = "allFail"
  /\ UNCHANGED <<reqSeq, termAge>>

FetchJoinedOk(r, joined) ==
  /\ UNCHANGED <<chatVars, navVars>>
  /\ r \in requests /\ r.kind = "joined"
  /\ CommCommit(fetchJoinedResolved(CommCur, joined))
  /\ requests' = requests \ {r}
  /\ commLast' = "joinedOk"
  /\ UNCHANGED <<reqSeq, termAge>>

\* no current user, or the request failed
FetchJoinedFail(r) ==
  /\ UNCHANGED <<chatVars, navVars>>
  /\ r \in requests /\ r.kind = "joined"
  /\ requests' = requests \ {r}
  /\ commLast' = "joinedFail"
  /\ UNCHANGED <<allCommunities, joinedCommunities, notJoinedCommunities, searchTerm,
                 loading, debounceTimers, reqSeq, termAge>>

\* a debounce timer that is due calls searchNotJoinedCommunities(t.term)
DebounceFires(t) ==
  /\ UNCHANGED <<chatVars, navVars>>
  /\ t \in debounceTimers /\ t.left = 0
  /\ reqSeq < MaxRequests
  /\ CommCommit([CommCur EXCEPT !.debounceTimers = debounceTimers \ {t},
                                !.loading = TRUE])
  /\ requests' = requests \cup {Request("search", t.term, t.joined, NoCommunity)}
  /\ reqSeq' = reqSeq + 1
  /\ commLast' = "debounce"
  /\ UNCHANGED termAge

SearchOk(r, searchResults) ==
  /\ UNCHANGED <<chatVars, navVars>>
  /\ r \in requests /\ r.kind = "search"
  /\ CommCommit(searchResolved(CommCur, r.joined, searchResults))
  /\ requests' = requests \ {r}
  /\ commLast' = "searchOk"
  /\ UNCHANGED <<reqSeq, termAge>>

SearchFail(r) ==
  /\ UNCHANGED <<chatVars, navVars>>
  /\ r \in requests /\ r.kind = "search"
  /\ CommCommit(searchRejected(CommCur))
  /\ requests' = requests \ {r}
  /\ commLast' = "searchFail"
  /\ UNCHANGED <<reqSeq, termAge>>

\* the Join button of an entry of notJoinedCommunities
JoinClick(i) ==
  /\ UNCHANGED <<chatVars, navVars>>
  /\ i \in 1..Len(notJoinedCommunities)
  /\ reqSeq < MaxRequests
  /\ requests' = requests \cup {Request("join", <<>>, <<>>, notJoinedCommunities[i])}
  /\ reqSeq' = reqSeq + 1
  /\ commLast' = "joinClick"
  /\ UNCHANGED <<allCommunities, joinedCommunities, notJoinedCommunities, searchTerm,
                 loading, debounceTimers, termAge>>

JoinOk(r) ==
  /\ UNCHANGED <<chatVars, navVars>>
  /\ r \in requests /\ r.kind = "join"
  /\ CommCommit(joinResolved(CommCur, r.community))
  /\ requests' = requests \ {r}
  /\ commLast' = "joinOk"
  /\ UNCHANGED <<reqSeq, termAge>>

JoinFail(r) ==
  /\ UNCHANGED <<chatVars, navVars>>
  /\ r \in requests /\ r.kind = "join"
  /\ requests' = requests \ {r}
  /\ commLast' = "joinFail"
  /\ UNCHANGED <<allCommunities, joinedCommunities, notJoinedCommunities, searchTerm,
                 loading, debounceTimers, reqSeq, termAge>>

\* the Leave button of an entry of displayedJoinedCommunities
LeaveClick(i) ==
  /\ UNCHANGED <<chatVars, navVars>>
  /\ i \in 1..Len(displayedJoinedCommunities)
  /\ reqSeq < MaxRequests
  /\ requests' = requests \cup
                   {Request("leave", searchTerm, <<>>, displayedJoinedCommunities[i])}
  /\ reqSeq' = reqSeq + 1
  /\ commLast' = "leaveClick"
  /\ UNCHANGED <<allCommunities, joinedCommunities, notJoinedCommunities, searchTerm,
                 loading, debounceTimers, termAge>>

LeaveOk(r) ==
  /\ UNCHANGED <<chatVars, navVars>>
  /\ r \in requests /\ r.kind = "leave"
  /\ CommCommit(leaveResolved(CommCur, r.community, r.term))
  /\ requests' = requests \ {r}
  /\ commLast' = "leaveOk"
  /\ UNCHANGED <<reqSeq, termAge>>

LeaveFail(r) ==
  /\ UNCHANGED <<chatVars, navVars>>
  /\ r \in requests /\ r.kind = "leave"
  /\ requests' = requests \ {r}
  /\ commLast' = "leaveFail"
  /\ UNCHANGED <<allCommunities, joinedCommunities, notJoinedCommunities, searchTerm,
                 loading, debounceTimers, reqSeq, termAge>>

\* time passes, up to the next moment a debounce timer is due
CommTick ==
  /\ UNCHANGED <<chatVars, navVars>>
  /\ \A t \in debounceTimers : t.left > 0
  /\ LET d == IF debounceTimers = {} THEN CommTickMs
              ELSE Min(CommTickMs, CHOOSE m \in {t.left : t \in debounceTimers} :
                                     \A t \in debounceTimers : m <= t.left)
     IN  /\ debounceTimers' = { [t EXCEPT !.left = @ - d] : t \in debounceTimers }
         /\ termAge' = Min(termAge + d, DebounceMs)
  /\ commLast' = "tick"
  /\ UNCHANGED <<allCommunities, joinedCommunities, notJoinedCommunities, searchTerm,
                 loading, requests, reqSeq>>

NextCommunities ==
  \/ \E value \in SearchTerms : TypeSearch(value)
  \/ \E r \in requests : \E communities \in AllResponses : FetchAllOk(r, communities)
  \/ \E r \in requests : FetchAllFail(r)
  \/ \E r \in requests : \E joined \in JoinedResponses : FetchJoinedOk(r, joined)
  \/ \E r \in requests : FetchJoinedFail(r)
  \/ \E t \in debounceTimers : DebounceFires(t)
  \/ \E r \in requests : \E searchResults \in SearchResponses : SearchOk(r, searchResults)
  \/ \E r \in requests : SearchFail(r)
  \/ \E i \in 1..Len(notJoinedCommunities) : JoinClick(i)
  \/ \E r \in requests : JoinOk(r)
  \/ \E r \in requests : JoinFail(r)
  \/ \E i \in 1..Len(displayedJoinedCommunities) : LeaveClick(i)
  \/ \E r \in requests : LeaveOk(r)
  \/ \E r \in requests : LeaveFail(r)
  \/ CommTick

\* ========================================================= NavigationBar
\* The bar and the ProfileContent of its profile sheet.  The bar renders
\* nothing while the pathname is "/auth", so none of its buttons can be
\* clicked there.  A handler records the calls it makes, in their order.

\* signOut() calls awaited at one moment
MaxSigningOut == 2

NoUser == "null"

workerTabs ==
  << [name |-> "Home", path |-> "/", isNotification |-> FALSE],
     [name |-> "AI", path |-> "/ai", isNotification |-> FALSE],
     [name |-> "Notification", path |-> "/notification", isNotification |-> TRUE],
     [name |-> "Community", path |-> "/community", isNotification |-> FALSE] >>

employerTabs ==
  << [name |-> "Home", path |-> "/", isNotification |-> FALSE],
     [name |-> "Post Job", path |-> "/post-job", isNotification |-> FALSE],
     [name |-> "Notification", path |-> "/notification", isNotification |-> TRUE] >>

tabs == IF userType = "worker" THEN workerTabs ELSE employerTabs

\* the state the handlers of the bar work on, with the calls made so far
NavCur ==
  [pathname |-> pathname, notificationOpen |-> notificationOpen,
   profileOpen |-> profileOpen, user |-> user, calls |-> <<>>]

NavCommit(op, s) ==
  /\ pathname' = s.pathname
  /\ notificationOpen' = s.notificationOpen
  /\ profileOpen' = s.profileOpen
  /\ user' = s.user
  /\ navLast' = [op |-> op, calls |-> s.calls]

routerPush(s, path) ==
  [s EXCEPT !.pathname = path, !.calls = Append(@, "router.push(" \o path \o ")")]

setNotificationOpen(s, open) ==
  [s EXCEPT !.notificationOpen = open,
            !.calls = Append(@, IF open THEN "setNotificationOpen(true)"
                                        ELSE "setNotificationOpen(false)")]

setProfileOpen(s, open) ==
  [s EXCEPT !.profileOpen = open,
            !.calls = Append(@, IF open THEN "setProfileOpen(true)"
                                        ELSE "setProfileOpen(false)")]

setUser(s, u) ==
  [s EXCEPT !.user = u, !.calls = Append(@, "setUser(" \o u \o ")")]

handleTabClick(s, tab) ==
  IF tab.isNotification THEN setNotificationOpen(s, TRUE) ELSE routerPush(s, tab.path)

handleProfileClick(s) == setProfileOpen(routerPush(s, "/profile"), FALSE)

\* handleLogout up to its await
logoutCalled(s) == [s EXCEPT !.calls = Append(@, "signOut()")]

\* handleLogout after signOut() resolved
logoutResolved(s) == setUser(setProfileOpen(routerPush(s, "/auth"), FALSE), NoUser)

\* mutant: the catch block navigates all the same
logoutRejected_navigates(s) == routerPush(s, "/auth")

\* handleLogout after signOut() rejected: the catch block only logs
logoutRejected(s) == s

\* the state after the mount, for the default of the userType prop and a
\* signed-in user
NavInit ==
  /\ userType = "worker"
  /\ pathname = "/"
  /\ notificationOpen = FALSE
  /\ profileOpen = FALSE
  /\ user = "user"
  /\ signingOut = 0
  /\ navLast = [op |-> "mount", calls |-> <<>>]

\* -------------------------------------------------- actions of the bar
Rendered == pathname # "/auth"

\* the parent renders the bar with another userType
PropsChange(type) ==
  /\ UNCHANGED <<chatVars, commVars>>
  /\ type # userType
  /\ userType' = type
  /\ navLast' = [op |-> "props", calls |-> <<>>]
  /\ UNCHANGED <<pathname, notificationOpen, profileOpen, user, signingOut>>

\* the avatar button
AvatarClick ==
  /\ UNCHANGED <<chatVars, commVars>>
  /\ Rendered
  /\ NavCommit("avatar", setProfileOpen(NavCur, TRUE))
  /\ UNCHANGED <<userType, signingOut>>

TabClick(i) ==
  /\ UNCHANGED <<chatVars, commVars>>
  /\ Rendered
  /\ i \in 1..Len(tabs)
  /\ NavCommit("tab", handleTabClick(NavCur, tabs[i]))
  /\ UNCHANGED <<userType, signingOut>>

\* onOpenChange of the notification sheet, which the sheet calls to close
NotificationSheetCloses ==
  /\ UNCHANGED <<chatVars, commVars>>
  /\ Rendered /\ notificationOpen
  /\ NavCommit("closeNotification", setNotificationOpen(NavCur, FALSE))
  /\ UNCHANGED <<userType, signingOut>>

\* onOpenChange of the profile sheet, which the sheet calls to close
ProfileSheetCloses ==
  /\ UNCHANGED <<chatVars, commVars>>
  /\ Rendered /\ profileOpen
  /\ NavCommit("closeProfile", setProfileOpen(NavCur, FALSE))
  /\ UNCHANGED <<userType, signingOut>>

\* the View Profile button of the open profile sheet
ProfileClick ==
  /\ UNCHANGED <<chatVars, commVars>>
  /\ Rendered /\ profileOpen
  /\ NavCommit("profile", handleProfileClick(NavCur))
  /\ UNCHANGED <<userType, signingOut>>

\* the Logout button of the open profile sheet
LogoutClick ==
  /\ UNCHANGED <<chatVars, commVars>>
  /\ Rendered /\ profileOpen
  /\ signingOut < MaxSigningOut
  /\ NavCommit("logoutClick", logoutCalled(NavCur))
  /\ signingOut' = signingOut + 1
  /\ UNCHANGED userType

SignOutResolves ==
  /\ UNCHANGED <<chatVars, commVars>>
  /\ signingOut > 0
  /\ NavCommit("signOutResolved", logoutResolved(NavCur))
  /\ signingOut' = signingOut - 1
  /\ UNCHANGED userType

SignOutRejects ==
  /\ UNCHANGED <<chatVars, commVars>>
  /\ signingOut > 0
  /\ NavCommit("signOutRejected", logoutRejected(NavCur))
  /\ signingOut' = signingOut - 1
  /\ UNCHANGED userType

NextNavBar ==
  \/ \E type \in {"worker", "employer"} : PropsChange(type)
  \/ AvatarClick
  \/ \E i \in 1..Len(tabs) : TabClick(i)
  \/ NotificationSheetCloses
  \/ ProfileSheetCloses
  \/ ProfileClick
  \/ LogoutClick
  \/ SignOutResolves
  \/ SignOutRejects

\* ========================================================= specifications
Init == ChatInit /\ CommInit /\ NavInit

\* the chat
Next ==
  \/ \E v \in Texts : SetInput(v)
  \/ \E text \in Texts \cup {input} : HandleSendMessage(text)
  \/ \E e \in DOMAIN sources : \E content \in Chunks : OnMessage(e, content)
  \/ \E e \in DOMAIN sources : OnError(e)
  \/ \E e \in DOMAIN sources : OnDone(e)
  \/ \E t \in timers : ChunkTimeoutFires(t)
  \/ Unmount
  \/ Tick

Spec == Init /\ [][Next]_vars

\* time passes, and a timer that is due runs its callback; nothing is
\* assumed of the server or of the user
FairSpec ==
  /\ Spec
  /\ WF_vars(Tick)
  /\ WF_vars(\E t \in timers : ChunkTimeoutFires(t))

\* the community list
SpecCommunities == Init /\ [][NextCommunities]_vars

\* the navigation bar
SpecNavBar == Init /\ [][NextNavBar]_vars

\* ------------------------------------------------------------ properties
OpenSources == { e \in DOMAIN sources : ~sources[e].closed }

\* the message with the given id
Msg(msgs, id) == msgs[CHOOSE i \in 1..Len(msgs) : msgs[i].id = id]

\* the assistant message of the send that constructed the EventSource e
MsgOf(msgs, e) == Msg(msgs, sources[e].assistantMessageId)

RECURSIVE Concat(_)
Concat(chunks) ==
  IF chunks = <<>> THEN <<>> ELSE Head(chunks) \o Concat(Tail(chunks))

StreamOps == {"message", "error", "done"}

\* C1: when the "done" event arrives on the open stream, that connection is
\* closed and the reference to it cleared, no inactivity timer is left
\* pending and isLoading is false; and a closed stream causes nothing any
\* more: no handler runs for it, and its assistant message stays as it is.
C1_DoneTearsDown ==
  [][ /\ lastEvent'.op = "done" =>
           /\ eventSourceRef = lastEvent'.src
           /\ sources'[lastEvent'.src].closed
           /\ eventSourceRef' = NoConn
           /\ chunkTimeoutRef' = NoTimer
           /\ timers' = {}
           /\ ~isLoading'
      /\ lastEvent'.op \in StreamOps => ~sources[lastEvent'.src].closed
      /\ \A e \in DOMAIN sources :
           sources[e].closed =>
             /\ sources'[e] = sources[e]
             /\ MsgOf(messages', e) = MsgOf(messages, e)
    ]_vars

\* a "done" event has torn down a stream that had received data, so that
\* its inactivity timer was pending
C1_Witness ==
  /\ lastEvent.op = "done"
  /\ sources[lastEvent.src].closed
  /\ sources[lastEvent.src].received # <<>>
  /\ ~MsgOf(messages, lastEvent.src).error
  /\ timers = {} /\ ~isLoading

\* C2: an open stream that has received no data for CHUNK_TIMEOUT ms,
\* counted from its opening or from its last chunk, is torn down: no stream
\* is open with more than CHUNK_TIMEOUT ms passed since then.
C2_InactivityTornDown ==
  eventSourceRef # NoConn => idle <= CHUNK_TIMEOUT

\* C3: every connection error of the open stream adds one to the count,
\* which never exceeds MAX_RETRIES; below MAX_RETRIES the connection stays
\* open and current and no message changes; the error that makes the count
\* MAX_RETRIES appends the failure text to the assistant message, marks it
\* error = true and tears the stream down.
C3_BoundedRetries ==
  [][ /\ retryCountRef' <= MAX_RETRIES
      /\ lastEvent'.op = "error" =>
           LET e == lastEvent'.src IN
           /\ eventSourceRef = e
           /\ retryCountRef' = retryCountRef + 1
           /\ ~MsgOf(messages, e).error
           /\ IF retryCountRef' < MAX_RETRIES
                THEN /\ eventSourceRef' = e
                     /\ ~sources'[e].closed
                     /\ messages' = messages
                ELSE /\ MsgOf(messages', e) =
                          [MsgOf(messages, e) EXCEPT
                             !.content = @ \o <<"\n", "[Err", "or:", " ",
                                 "Connection failed after multiple retries", "]">>,
                             !.error = TRUE, !.isLoading = FALSE]
                     /\ sources'[e].closed
                     /\ eventSourceRef' = NoConn
                     /\ OpenSources' = {}
    ]_vars

\* the third connection error of a send has been handled
C3_Witness ==
  /\ lastEvent.op = "error"
  /\ retryCountRef = MAX_RETRIES
  /\ eventSourceRef = NoConn
  /\ MsgOf(messages, lastEvent.src).error

\* C4: after every send of non-blank text the chat eventually has no open
\* connection and isLoading false, whatever the server does.
C4_EverySendFinishes ==
  (lastEvent.op = "send" /\ Trim(lastEvent.arg) # <<>>)
    ~> (OpenSources = {} /\ ~isLoading)

\* C5: for every send whose stream received only chunks without "[Error:"
\* and whose assistant message is not marked failed, the content of that
\* message is the concatenation of the received chunks in arrival order,
\* and its isLoading flag is false once a chunk has arrived.
C5_IncrementalAppend ==
  \A e \in DOMAIN sources :
    LET r == sources[e].received
        m == MsgOf(messages, e)
    IN  ((\A i \in 1..Len(r) : ~Includes(r[i], ErrMarker)) /\ ~m.error) =>
          /\ m.content = Concat(r)
          /\ r # <<>> => ~m.isLoading

\* two chunks have been appended; neither holds the marker, their
\* concatenation does
C5_Witness ==
  \E e \in DOMAIN sources :
    /\ Len(sources[e].received) = 2
    /\ \A i \in 1..2 : ~Includes(sources[e].received[i], ErrMarker)
    /\ MsgOf(messages, e).content = <<"[Err", "or:">>
    /\ ~MsgOf(messages, e).error

\* the step has torn down the stream that was current, if any
TearsDownExisting ==
  /\ \A e \in DOMAIN sources : sources'[e] = [sources[e] EXCEPT !.closed = TRUE]
  /\ timers' = {}

\* the step has opened exactly one new stream for text and made it current
OpensStream(text) ==
  /\ Len(sources') = Len(sources) + 1
  /\ sources'[Len(sources')].url =
       [path |-> "/api/stream-prompt", thread_id |-> thread_id,
        prompt |-> EncodeURIComponent(text)]
  /\ OpenSources' = {Len(sources')}
  /\ eventSourceRef' = Len(sources')
  /\ chunkTimeoutRef' = NoTimer
  /\ isLoading'

\* the step has opened no stream and reported the failure to connect
FailsToOpen ==
  /\ Len(sources') = Len(sources)
  /\ OpenSources' = {}
  /\ eventSourceRef' = NoConn
  /\ chunkTimeoutRef' = NoTimer
  /\ ~isLoading'
  /\ LET m == messages'[Len(messages')]
     IN  /\ m.content = <<"\n", "[Err", "or:", " ",
                          "Failed to establish connection", "]">>
         /\ m.error /\ ~m.isLoading

\* C6 as stated: every send of non-blank text tears down the existing
\* stream, opens exactly one new stream for that prompt and the thread id,
\* stores it as the current connection and sets isLoading to true.
C6_SendOpensStream ==
  [][ (lastEvent'.op = "send" /\ Trim(lastEvent'.arg) # <<>>) =>
        (TearsDownExisting /\ OpensStream(lastEvent'.arg)) ]_vars

\* C6 as amended: every send of non-blank text tears down the existing
\* stream; unless encoding the text into the url throws, it then opens
\* exactly one new stream for that prompt and the thread id, stores it as
\* the current connection and sets isLoading to true; if the encoding
\* throws, no stream is opened or stored, the assistant placeholder gets
\* the "Failed to establish connection" error, and isLoading is false.
C6_SendOpensStreamUnlessThrows ==
  [][ (lastEvent'.op = "send" /\ Trim(lastEvent'.arg) # <<>>) =>
        /\ TearsDownExisting
        /\ IF EncodeThrows(lastEvent'.arg)
             THEN FailsToOpen
             ELSE OpensStream(lastEvent'.arg) ]_vars

\* a send found a stream open, closed it and opened the next one
C6_Witness ==
  /\ lastEvent.op = "send"
  /\ lastEvent.src # NoConn
  /\ sources[lastEvent.src].closed
  /\ eventSourceRef = Len(sources)
  /\ eventSourceRef # lastEvent.src
  /\ isLoading

\* C7: the unmount closes the open connection and cancels the pending
\* timer, and once unmounted no stream handler and no timer callback runs:
\* only time passes, and messages and streams stay as they are.
C7_UnmountTearsDown ==
  [][ /\ lastEvent'.op = "unmount" =>
           /\ \A e \in DOMAIN sources : sources'[e] = [sources[e] EXCEPT !.closed = TRUE]
           /\ timers' = {}
           /\ eventSourceRef' = NoConn
           /\ chunkTimeoutRef' = NoTimer
      /\ ~mounted =>
           /\ lastEvent'.op = "tick"
           /\ messages' = messages
           /\ sources' = sources
           /\ timers' = {}
    ]_vars

\* the component was unmounted while its stream was open with the
\* inactivity timer pending
C7_Witness ==
  /\ ~mounted
  /\ lastEvent.op = "unmount"
  /\ lastEvent.src # NoConn
  /\ sources[lastEvent.src].received # <<>>
  /\ ~MsgOf(messages, lastEvent.src).error
  /\ timers = {}

\* C8: a chunk that contains "[Error:" is not appended as content: the
\* assistant message becomes the content accumulated so far plus the error
\* suffix, with error = true and isLoading = false; the stream is torn down
\* and no timer is left pending; and a message marked failed never changes.
C8_ErrorChunk ==
  [][ /\ (lastEvent'.op = "message" /\ Includes(lastEvent'.arg, ErrMarker)) =>
           LET e == lastEvent'.src IN
           /\ MsgOf(messages', e) =
                [MsgOf(messages, e) EXCEPT
                   !.content = Concat(sources[e].received) \o
                               <<"\n", "[Err", "or:", " ">> \o lastEvent'.arg \o <<"]">>,
                   !.error = TRUE, !.isLoading = FALSE]
           /\ sources'[e].fullMessage = sources[e].fullMessage
           /\ sources'[e].closed
           /\ OpenSources' = {}
           /\ eventSourceRef' = NoConn
           /\ chunkTimeoutRef' = NoTimer
           /\ timers' = {}
           /\ ~isLoading'
      /\ \A i \in 1..Len(messages) : messages[i].error => messages'[i] = messages[i]
    ]_vars

\* an error chunk arrived after a normal chunk
C8_Witness ==
  /\ lastEvent.op = "message"
  /\ Includes(lastEvent.arg, ErrMarker)
  /\ Len(sources[lastEvent.src].received) = 2
  /\ MsgOf(messages, lastEvent.src).error
  /\ sources[lastEvent.src].closed

\* C9: at most one stream is open, the open one is the one the most recent
\* send constructed and is the current connection, and isLoading is true
\* exactly while a stream is open.
C9_AtMostOneStream ==
  /\ Cardinality(OpenSources) <= 1
  /\ OpenSources # {} => OpenSources = {Len(sources)}
  /\ OpenSources = IF eventSourceRef = NoConn THEN {} ELSE {eventSourceRef}
  /\ isLoading <=> OpenSources # {}

\* the second stream is open, the first one closed
C9_Witness ==
  /\ Len(sources) = 2
  /\ OpenSources = {2}
  /\ isLoading

\* C10: at most one inactivity timer is pending, and it is the one
\* chunkTimeoutRef holds; a pending timer implies an open stream; every
\* received chunk cancels the previous timer and arms a fresh one with the
\* full period (which the teardown of an error chunk cancels again); after
\* a teardown no timer is pending.
C10_TimerDiscipline ==
  [][ /\ Cardinality(timers') <= 1
      /\ \A t \in timers' : t.id = chunkTimeoutRef' /\ eventSourceRef' # NoConn
      /\ eventSourceRef' = NoConn => (timers' = {} /\ chunkTimeoutRef' = NoTimer)
      /\ lastEvent'.op = "message" =>
           /\ timerSeq' = timerSeq + 1
           /\ \A t \in timers : \A u \in timers' : u.id # t.id
           /\ ~Includes(lastEvent'.arg, ErrMarker) =>
                timers' = {[id |-> timerSeq',
                            msg |-> sources[lastEvent'.src].assistantMessageId,
                            left |-> CHUNK_TIMEOUT]}
    ]_vars

\* a chunk arrived while the timer of the previous chunk was pending
C10_Witness ==
  /\ lastEvent.op = "message"
  /\ timerSeq = 2
  /\ Len(sources[lastEvent.src].received) = 2
  /\ timers = {[id |-> 2, msg |-> sources[lastEvent.src].assistantMessageId,
                left |-> CHUNK_TIMEOUT]}

\* C11: once the stream of a send has been torn down by the "done" event,
\* by an error, by the timeout or by the failure to connect, no message of
\* the history has isLoading = true.
C11_NoStuckLoading ==
  (eventSourceRef = NoConn /\ lastEvent.op \in {"done", "error", "message", "timeout", "send"})
    => \A i \in 1..Len(messages) : ~messages[i].isLoading

\* empty or nothing but white space
Blank(text) == \A i \in 1..Len(text) : text[i] = " "

\* the two messages a send of text appends, by their role, content and flags
AppendsPair(text, placeholderContent, placeholderError, placeholderLoading) ==
  LET n == Len(messages) IN
  /\ Len(messages') = n + 2
  /\ SubSeq(messages', 1, n) = messages
  /\ messages'[n + 1].role = "user"
  /\ messages'[n + 1].content = text
  /\ ~messages'[n + 1].error /\ ~messages'[n + 1].isLoading
  /\ messages'[n + 2].role = "assistant"
  /\ messages'[n + 2].content = placeholderContent
  /\ messages'[n + 2].error = placeholderError
  /\ messages'[n + 2].isLoading = placeholderLoading
  /\ \A i \in 1..n : \A j \in {n + 1, n + 2} : messages'[j].id # messages[i].id
  /\ messages'[n + 1].id # messages'[n + 2].id

\* the history is the welcome message followed by user/assistant pairs
WelcomeThenPairs(msgs) ==
  /\ msgs[1] = WelcomeMessage
  /\ Len(msgs) % 2 = 1
  /\ \A i \in 2..Len(msgs) :
       msgs[i].role = IF i % 2 = 0 THEN "user" ELSE "assistant"

\* a step of a stream or of its timer changes at most the content and the
\* flags of the assistant message of that stream; any other step that is
\* no send changes no message
OnlyOwnMessageChanges ==
  /\ lastEvent'.op \in {"message", "error", "done", "timeout"} =>
       /\ Len(messages') = Len(messages)
       /\ \A i \in 1..Len(messages) :
            \/ messages'[i] = messages[i]
            \/ /\ lastEvent'.src # NoConn
               /\ messages[i].id = sources[lastEvent'.src].assistantMessageId
               /\ messages'[i].id = messages[i].id
               /\ messages'[i].role = messages[i].role
  /\ lastEvent'.op \in {"tick", "input", "unmount"} => messages' = messages
  /\ (lastEvent'.op = "send" /\ Blank(lastEvent'.arg)) => messages' = messages

\* C12 as stated: every send of non-blank text appends the user message and
\* an empty assistant placeholder with isLoading = true; the history is the
\* welcome message followed by user/assistant pairs; every other step
\* changes at most the assistant message of its own stream.
C12_AppendOnly ==
  [][ /\ (lastEvent'.op = "send" /\ ~Blank(lastEvent'.arg)) =>
           AppendsPair(lastEvent'.arg, <<>>, FALSE, TRUE)
      /\ WelcomeThenPairs(messages')
      /\ OnlyOwnMessageChanges ]_vars

\* C12 as amended: as C12, except that the placeholder of a send whose url
\* cannot be built already carries the "Failed to establish connection"
\* error, with error = true and isLoading = false, when the send returns.
C12_AppendOnlyUnlessThrows ==
  [][ /\ (lastEvent'.op = "send" /\ ~Blank(lastEvent'.arg)) =>
           IF EncodeThrows(lastEvent'.arg)
             THEN AppendsPair(lastEvent'.arg,
                              <<"\n", "[Err", "or:", " ",
                                "Failed to establish connection", "]">>, TRUE, FALSE)
             ELSE AppendsPair(lastEvent'.arg, <<>>, FALSE, TRUE)
      /\ WelcomeThenPairs(messages')
      /\ OnlyOwnMessageChanges ]_vars

\* a chunk of the second send has been appended to the last message, with
\* the pair of the first send before it
C12_Witness ==
  /\ Len(messages) = 5
  /\ lastEvent.op = "message"
  /\ lastEvent.src = 2
  /\ messages[5].content = lastEvent.arg
  /\ messages[3].isLoading

\* C13: a send of empty or white-space-only text changes nothing: not the
\* messages, the streams, the current connection, the timers, the retry
\* count, isLoading or the input.
C13_BlankSendNoOp ==
  [][ (lastEvent'.op = "send" /\ Blank(lastEvent'.arg)) =>
        UNCHANGED <<messages, input, isLoading, eventSourceRef, chunkTimeoutRef,
                    retryCountRef, sources, timers, timerSeq, uuidSeq>> ]_vars

\* white space was sent while a stream was open, with its timer pending and
\* an error counted
C13_Witness ==
  /\ lastEvent.op = "send"
  /\ lastEvent.arg = <<" ">>
  /\ eventSourceRef # NoConn
  /\ timers # {}
  /\ retryCountRef > 0
  /\ isLoading

\* C14: a send of non-blank text sets the error count to 0; an error adds
\* one to it and fails the send exactly when the count of this send reaches
\* MAX_RETRIES; no other step, a received chunk included, changes it.
C14_RetryCountPerSend ==
  [][ /\ (lastEvent'.op = "send" /\ ~Blank(lastEvent'.arg)) => retryCountRef' = 0
      /\ lastEvent'.op = "error" =>
           /\ retryCountRef' = retryCountRef + 1
           /\ (eventSourceRef' = NoConn) <=> (retryCountRef' = MAX_RETRIES)
      /\ ~(lastEvent'.op = "error" \/ (lastEvent'.op = "send" /\ ~Blank(lastEvent'.arg)))
           => retryCountRef' = retryCountRef ]_vars

\* the first send failed after MAX_RETRIES errors; the second send has
\* counted one error and then received a chunk, and its stream is open
C14_Witness ==
  /\ Len(sources) = 2
  /\ messages[3].error
  /\ Includes(messages[3].content, <<"Connection failed after multiple retries">>)
  /\ eventSourceRef = 2
  /\ retryCountRef = 1
  /\ lastEvent.op = "message"

\* ---------------------------------------------------------------------
\* the community list is settled: no request in flight, no timer pending
Settled == requests = {} /\ debounceTimers = {}

\* ---------------------------------------------------------------------
\* C15: whatever the interleaving of typing, search responses, join and
\* leave, no community id is both in joinedCommunities and in
\* notJoinedCommunities.  Stated for the settled states only, where nothing
\* is left that could still repair the lists.
C15_ListsDisjoint ==
  Settled => Ids(joinedCommunities) \cap Ids(notJoinedCommunities) = {}

\* ---------------------------------------------------------------------
\* C16: whenever the search term is blank and the community list is settled,
\* notJoinedCommunities is exactly the communities of allCommunities whose
\* id is not in joinedCommunities.
C16_BlankTermShowsLocalFilter ==
  (Trim(searchTerm) = <<>> /\ Settled)
    => notJoinedCommunities = WithoutIds(allCommunities, Ids(joinedCommunities))

\* the search requests a step issues
IssuedSearches == { r \in requests' \ requests : r.kind = "search" }

\* ---------------------------------------------------------------------
\* C17: at most one debounce timer is pending, and it is for the current,
\* non-blank term and the current joined list; a step that changes the term
\* or the joined list leaves no timer but one armed for the full 500 ms; a
\* search request is issued only for the current term, which is non-blank
\* and has been unchanged for 500 ms.
C17_DebouncedSearch ==
  [][ /\ Cardinality(debounceTimers') <= 1
      /\ \A t \in debounceTimers' :
            /\ Trim(t.term) # <<>>
            /\ t.term = searchTerm'
            /\ t.joined = joinedCommunities'
      /\ (searchTerm' # searchTerm \/ commLast' \in {"joinedOk", "joinOk", "leaveOk"})
            => /\ \A t \in debounceTimers' : t.left = DebounceMs
               /\ IssuedSearches = {}
      /\ \A r \in IssuedSearches :
            /\ Trim(r.term) # <<>>
            /\ r.term = searchTerm
            /\ termAge >= DebounceMs
            /\ commLast' = "debounce"
    ]_vars

\* the timer armed after the joined list changed has run out and has
\* issued the search for the current term
C17_Witness ==
  /\ commLast = "debounce"
  /\ \E r \in requests : r.kind = "search" /\ r.term = searchTerm /\ r.joined = <<CommA>>
  /\ joinedCommunities = <<CommA>>
  /\ debounceTimers = {}
  /\ termAge = DebounceMs

LogoutCalls == <<"router.push(/auth)", "setProfileOpen(false)", "setUser(null)">>

\* ---------------------------------------------------------------------
\* C18: handleLogout first calls signOut() and does nothing else until it
\* is settled; when signOut() resolves it navigates to /auth, closes the
\* profile sheet and sets the user to null, in that order; when signOut()
\* rejects it makes no call, and the pathname, the profile sheet and the
\* user stay as they are.  No other step of the bar navigates to /auth or
\* changes the user.
C18_LogoutAfterSignOut ==
  [][ /\ navLast'.op = "logoutClick"
         => /\ navLast'.calls = <<"signOut()">>
            /\ signingOut' = signingOut + 1
            /\ UNCHANGED <<pathname, notificationOpen, profileOpen, user>>
      /\ navLast'.op = "signOutResolved"
         => /\ signingOut > 0
            /\ navLast'.calls = LogoutCalls
            /\ pathname' = "/auth" /\ ~profileOpen' /\ user' = NoUser
      /\ navLast'.op = "signOutRejected"
         => /\ signingOut > 0
            /\ navLast'.calls = <<>>
            /\ UNCHANGED <<pathname, notificationOpen, profileOpen, user>>
      /\ ((pathname' = "/auth" /\ pathname # "/auth") \/ user' # user)
         => navLast'.op = "signOutResolved"
    ]_vars

\* the logout of an employer has succeeded, and no other one is awaited
C18_Witness ==
  /\ navLast = [op |-> "signOutResolved", calls |-> LogoutCalls]
  /\ pathname = "/auth" /\ ~profileOpen /\ user = NoUser
  /\ signingOut = 0
  /\ userType = "employer"

====
